---- MODULE Spec2Model ----
(***************************************************************************)
(* A model of scraper.py: the URL model (Url.normalize, Url.parse,         *)
(* Url.relative), the SQLite store (Database), the fetch cache             *)
(* (HTTPCache), link extraction, the scrape policy and the commands        *)
(* cmd_create and cmd_scrape.                                              *)
(*                                                                         *)
(* A Python str is a sequence of lexemes.  A lexeme is either one of the   *)
(* punctuation characters the code and its libraries split on              *)
(* ("/", ":", "?", "#", ";", " ") or an indivisible run of other           *)
(* characters ("example.com", "text/html" inside a header value, "a").     *)
(* An Optional[str] is None (the empty tuple) or Some(s) (a 1-tuple).      *)
(***************************************************************************)
EXTENDS Integers, Sequences, FiniteSets, TLC

\* ------------------------------------------------------------------ bounds

\* The number of commands (create / scrape) run against the store file.
MaxRuns == 3

\* ----------------------------------------------------------------- strings

None == <<>>

Some(s) == <<s>>

\* Python's `x or d` for an Optional[str] x: d when x is None or ''.
OrElse(x, d) == IF x = None \/ x[1] = <<>> THEN d ELSE x[1]

\* Python's truthiness of an Optional[str].
Truthy(x) == x # None /\ x[1] # <<>>

\* The lexemes of the model in the order of Python's str comparison
\* (code points: ' ' < '#' < '/' < digits < ':' < ';' < '?' < 'A'.. < 'a'..).
LexOrder ==
    << " ", "#", "/", ":", ";", "?", "Content-Type", "a", "b", "c",
       "charset=utf-8", "content-type", "example.com", "f", "ftp", "http",
       "https", "mailto", "n", "other.com", "q=1", "q=2", "s", "text/html",
       "text/plain", "top", "x", "x=1" >>

Ord(c) == CHOOSE i \in 1..Len(LexOrder) : LexOrder[i] = c

\* str.__lt__: lexicographic.
RECURSIVE StrLess(_, _)
StrLess(s, t) ==
    IF t = <<>> THEN FALSE
    ELSE IF s = <<>> THEN TRUE
    ELSE IF s[1] = t[1] THEN StrLess(Tail(s), Tail(t))
    ELSE Ord(s[1]) < Ord(t[1])

\* str.lower() on the lexemes of the model.
LowerLex(c) == IF c = "Content-Type" THEN "content-type" ELSE c

lower(s) == [i \in 1..Len(s) |-> LowerLex(s[i])]

\* The least index of s holding a lexeme of stops, Len(s)+1 when none does.
FindFirst(s, stops) ==
    IF \E i \in 1..Len(s) : s[i] \in stops
    THEN CHOOSE i \in 1..Len(s) :
            s[i] \in stops /\ \A j \in 1..(i-1) : s[j] \notin stops
    ELSE Len(s) + 1

\* The greatest index of s holding lexeme c, 0 when none does (str.rfind + 1).
FindLast(s, c) ==
    IF \E i \in 1..Len(s) : s[i] = c
    THEN CHOOSE i \in 1..Len(s) :
            s[i] = c /\ \A j \in (i+1)..Len(s) : s[j] # c
    ELSE 0

Drop(s, n) == SubSeq(s, n + 1, Len(s))

Take(s, n) == SubSeq(s, 1, n)

\* ---------------------------------------------------------- urllib3.util

\* The lexemes SCHEME_RE / URI_RE accept as a scheme word.
SchemeWords == {"http", "https", "ftp", "mailto"}

\* urllib3.util.Url(...): the constructor puts a "/" before a non-empty path
\* that does not start with one (scheme lower-casing is the identity on the
\* lexemes of the model).
Urllib3Url(scheme, host, path, query, fragment) ==
    [scheme |-> scheme, host |-> host,
     path |-> IF Truthy(path) /\ path[1][1] # "/"
              THEN Some(<<"/">> \o path[1]) ELSE path,
     query |-> query, fragment |-> fragment]

\* SCHEME_RE.search(u): u starts with "scheme:" or with "/".
StartsWithScheme(u) == Len(u) >= 2 /\ u[1] \in SchemeWords /\ u[2] = ":"

SCHEME_RE_search(u) == StartsWithScheme(u) \/ u[1] = "/"

\* What parse_url returns once URI_RE has matched: no authority gives no
\* host, and an empty path is '' when a query or a fragment follows it and
\* None otherwise.
UriGroups(scheme, authority, path, query, fragment) ==
    Urllib3Url(scheme,
               IF authority # <<>> THEN Some(authority) ELSE None,
               IF path # <<>> THEN Some(path)
               ELSE IF query # None \/ fragment # None THEN Some(<<>>)
               ELSE None,
               query, fragment)

\* URI_RE, group by group; r is the text not yet matched.
\* (?:#(.*))?
MatchFragment(scheme, authority, path, query, r) ==
    UriGroups(scheme, authority, path, query,
              IF r # <<>> THEN Some(Drop(r, 1)) ELSE None)

\* (?:\?([^#]*))?
MatchQuery(scheme, authority, path, r) ==
    IF r # <<>> /\ r[1] = "?"
    THEN MatchFragment(scheme, authority, path,
                       Some(SubSeq(r, 2, FindFirst(r, {"#"}) - 1)),
                       Drop(r, FindFirst(r, {"#"}) - 1))
    ELSE MatchFragment(scheme, authority, path, None, r)

\* ([^?#]*)
MatchPath(scheme, authority, r) ==
    MatchQuery(scheme, authority,
               Take(r, FindFirst(r, {"?", "#"}) - 1),
               Drop(r, FindFirst(r, {"?", "#"}) - 1))

\* (?://([^\\/?#]*))?
MatchAuthority(scheme, r) ==
    IF Len(r) >= 2 /\ r[1] = "/" /\ r[2] = "/"
    THEN MatchPath(scheme,
                   SubSeq(r, 3, FindFirst(Drop(r, 2), {"/", "?", "#"}) + 1),
                   Drop(r, FindFirst(Drop(r, 2), {"/", "?", "#"}) + 1))
    ELSE MatchPath(scheme, <<>>, r)

\* (?:([a-zA-Z][a-zA-Z0-9+.-]*):)?
URI_RE_match(u) ==
    IF StartsWithScheme(u)
    THEN MatchAuthority(Some(<<u[1]>>), Drop(u, 2))
    ELSE MatchAuthority(None, u)

\* urllib3.util.parse_url(url): the five components the code reads, each an
\* Optional[str].  A string that starts neither with "scheme:" nor with "/"
\* is parsed as if it started with "//", i.e. as an authority.
parse_url(url) ==
    IF ~ Truthy(url) THEN Urllib3Url(None, None, None, None, None)
    ELSE IF SCHEME_RE_search(url[1]) THEN URI_RE_match(url[1])
    ELSE URI_RE_match(<<"/", "/">> \o url[1])

\* ------------------------------------------------------------------- os.path

\* str.rstrip('/')
RECURSIVE rstrip(_)
rstrip(h) ==
    IF h # <<>> /\ h[Len(h)] = "/" THEN rstrip(Take(h, Len(h) - 1)) ELSE h

\* os.path.dirname(p)
dirname(p) ==
    LET i == FindLast(p, "/")
        head == Take(p, i)
    IN  IF head # <<>> /\ \E k \in 1..Len(head) : head[k] # "/"
        THEN rstrip(head) ELSE head

\* os.path.join(a, b)
join(a, b) ==
    IF b # <<>> /\ b[1] = "/" THEN b
    ELSE IF a = <<>> \/ a[Len(a)] = "/" THEN a \o b
    ELSE a \o <<"/">> \o b

\* ------------------------------------------------------------------ Url, Uri

Uri(host, path) == [host |-> host, path |-> path]

Url(scheme, uri, query, fragment) ==
    [scheme |-> scheme, uri |-> uri, query |-> query, fragment |-> fragment]

\* A normalize that ends every path with "/".
Url_normalize_appends_slash(url) ==
    IF url.host = None
    THEN [exc |-> "AssertionError", val |-> None]
    ELSE [exc |-> "",
          val |-> Some(Url(OrElse(url.scheme, <<"http">>),
                           Uri(url.host[1], OrElse(url.path, <<>>) \o <<"/">>),
                           url.query, url.fragment))]

\* Url.normalize: [exc, val]; the assert on url.host raises AssertionError.
Url_normalize(url) ==
    IF url.host = None
    THEN [exc |-> "AssertionError", val |-> None]
    ELSE [exc |-> "",
          val |-> Some(Url(OrElse(url.scheme, <<"http">>),
                           Uri(url.host[1], OrElse(url.path, <<"/">>)),
                           url.query, url.fragment))]

\* Url.parse
Url_parse(s) == Url_normalize(parse_url(Some(s)))

\* Url.url: the urllib3 Url of self.
Url_url(self) ==
    Urllib3Url(Some(self.scheme), Some(self.uri.host), Some(self.uri.path),
               self.query, self.fragment)

\* Url.url followed by urllib3's Url.url: the text of the URL.
Url_str(self) ==
    LET u == Urllib3Url(Some(self.scheme), Some(self.uri.host),
                        Some(self.uri.path), self.query, self.fragment)
    IN  u.scheme[1] \o <<":", "/", "/">> \o u.host[1] \o u.path[1]
        \o (IF u.query # None THEN <<"?">> \o u.query[1] ELSE <<>>)
        \o (IF u.fragment # None THEN <<"#">> \o u.fragment[1] ELSE <<>>)

\* A relative that takes the path from rel alone.
Url_relative_rel_path(self, rel) ==
    LET rhs == parse_url(rel)
        path == IF ~ Truthy(rhs.path) THEN <<>>
                ELSE IF rhs.path[1][1] = "/" THEN rhs.path[1]
                ELSE join(dirname(self.uri.path), rhs.path[1])
    IN  Url(OrElse(rhs.scheme, self.scheme),
            Uri(OrElse(rhs.host, self.uri.host), path),
            rhs.query, rhs.fragment)

\* Url.relative(self, rel): rel is an Optional[str] (link.get('href')).
Url_relative(self, rel) ==
    LET rhs == parse_url(rel)
        path == IF ~ Truthy(rhs.path) THEN self.uri.path
                ELSE IF rhs.path[1][1] = "/" THEN rhs.path[1]
                ELSE join(dirname(self.uri.path), rhs.path[1])
    IN  Url(OrElse(rhs.scheme, self.scheme),
            Uri(OrElse(rhs.host, self.uri.host), path),
            rhs.query, rhs.fragment)

\* The dataclass order of Url: the tuples (scheme, (host, path), query,
\* fragment) are compared at their first differing item; comparing None with
\* a str there raises TypeError.
Url_comparable(a, b) ==
    IF a.scheme # b.scheme \/ a.uri # b.uri THEN TRUE
    ELSE IF a.query # b.query THEN a.query # None /\ b.query # None
    ELSE IF a.fragment # b.fragment THEN a.fragment # None /\ b.fragment # None
    ELSE TRUE

Url_lt(a, b) ==
    IF a.scheme # b.scheme THEN StrLess(a.scheme, b.scheme)
    ELSE IF a.uri.host # b.uri.host THEN StrLess(a.uri.host, b.uri.host)
    ELSE IF a.uri.path # b.uri.path THEN StrLess(a.uri.path, b.uri.path)
    ELSE IF a.query # b.query THEN StrLess(a.query[1], b.query[1])
    ELSE IF a.fragment # b.fragment THEN StrLess(a.fragment[1], b.fragment[1])
    ELSE FALSE

\* sorted(S) for a set of Url: [exc, val].
RECURSIVE SortedSeq(_)
SortedSeq(S) ==
    IF S = {} THEN <<>>
    ELSE LET m == CHOOSE x \in S : \A y \in S \ {x} : Url_lt(x, y)
         IN  <<m>> \o SortedSeq(S \ {m})

sorted(S) ==
    IF \E a, b \in S : ~ Url_comparable(a, b)
    THEN [exc |-> "TypeError", val |-> <<>>]
    ELSE [exc |-> "", val |-> SortedSeq(S)]

\* ----------------------------------------------- CaseInsensitiveDict, Resource

\* requests' CaseInsensitiveDict: an ordered mapping lower(key) -> (key, value),
\* here the sequence of its entries [lower, key, value] in insertion order.
\* __setitem__ keeps the place of an entry it replaces.
CID_setitem(d, key, value) ==
    LET e == [lower |-> lower(key), key |-> key, value |-> value]
    IN  IF \E i \in 1..Len(d) : d[i].lower = e.lower
        THEN [i \in 1..Len(d) |-> IF d[i].lower = e.lower THEN e ELSE d[i]]
        ELSE Append(d, e)

CID_contains(d, key) == \E i \in 1..Len(d) : d[i].lower = lower(key)

\* __getitem__ of a key the mapping holds.
CID_getitem(d, key) ==
    d[CHOOSE i \in 1..Len(d) : d[i].lower = lower(key)].value

\* __eq__: the mappings lower(key) -> value are equal.
CID_eq(d1, d2) ==
    {<<d1[i].lower, d1[i].value>> : i \in 1..Len(d1)}
        = {<<d2[i].lower, d2[i].value>> : i \in 1..Len(d2)}

\* CaseInsensitiveDict(data) for a sequence of (name, value) pairs.
RECURSIVE CaseInsensitiveDict(_)
CaseInsensitiveDict(items) ==
    IF items = <<>> THEN <<>>
    ELSE LET n == Len(items)
         IN  CID_setitem(CaseInsensitiveDict(Take(items, n - 1)),
                         items[n][1], items[n][2])

Resource(status, headers, data) ==
    [status |-> status, headers |-> headers, data |-> data]

\* Equality of Resources as the dataclass defines it: status, headers
\* (CaseInsensitiveDict.__eq__) and data.
Resource_eq(r1, r2) ==
    r1.status = r2.status /\ CID_eq(r1.headers, r2.headers) /\ r1.data = r2.data

\* ------------------------------------------------------------- the transport

\* A document body is the sequence of its <a> elements, each the Optional[str]
\* that link.get('href') returns.
Href(s) == Some(s)

Html == <<"text/html">>

HtmlUtf8 == <<"text/html", ";", " ", "charset=utf-8">>

Plain == <<"text/plain">>

ContentType(name, value) == CaseInsensitiveDict(<< <<name, value>> >>)

\* The synthetic site the transport answers from: the response to a GET of
\* (scheme, host, path, query).  The fragment is never sent.
WebPage(scheme, host, path, query) ==
    IF host # Some(<<"example.com">>) \/ scheme \notin {Some(<<"http">>), Some(<<"https">>)}
    THEN Resource(404, ContentType(<<"Content-Type">>, Html), <<>>)
    ELSE CASE path = Some(<<"/">>) ->
                Resource(200, ContentType(<<"Content-Type">>, HtmlUtf8),
                         << Href(<<"/", "a">>),
                            Href(<<"/", "s", "?", "q=1">>),
                            Href(<<"/", "s", "?", "q=2">>),
                            Href(<<"http", ":", "/", "/", "other.com", "/">>),
                            Href(<<"ftp", ":", "/", "/", "example.com", "/", "x">>),
                            None,
                            Href(<<"c">>) >>)
           [] path = Some(<<"/", "a">>) ->
                Resource(200, ContentType(<<"content-type">>, Html),
                         << Href(<<"/">>),
                            Href(<<"/", "b">>),
                            Href(<<"mailto", ":", "x">>),
                            Href(<<"#", "top">>) >>)
           [] path = Some(<<"/", "a", "/", "b">>) ->
                Resource(200, ContentType(<<"Content-Type">>, Html),
                         << Href(<<"c">>),
                            Href(<<"/", "c">>),
                            Href(<<"c", "?", "x=1">>),
                            Href(<<"#", "top">>),
                            Href(<<"https", ":", "/", "/", "example.com", "/", "c">>) >>)
           [] path = Some(<<"/", "b">>) ->
                Resource(200, ContentType(<<"Content-Type">>, Plain),
                         << Href(<<"/", "x">>) >>)
           [] path = Some(<<"/", "s">>) /\ query = Some(<<"q=1">>) ->
                Resource(200, ContentType(<<"Content-Type">>, Html),
                         << Href(<<"/", "a">>) >>)
           [] path = Some(<<"/", "s">>) /\ query # Some(<<"q=1">>) ->
                Resource(200, ContentType(<<"Content-Type">>, Html),
                         << Href(<<"/", "b">>) >>)
           [] path = Some(<<"/", "f">>) ->
                Resource(200, ContentType(<<"Content-Type">>, Html),
                         << Href(<<"/", "b">>),
                            Href(<<"/", "b", "#", "top">>) >>)
           [] path = Some(<<"/", "n">>) ->
                Resource(204, <<>>, <<>>)
           [] OTHER ->
                Resource(404, ContentType(<<"Content-Type">>, Html), <<>>)

\* requests.get(url): the transport parses the text of the URL and asks the
\* site for (scheme, host, path, query).
requests_get(url) ==
    LET p == parse_url(Some(url))
    IN  WebPage(p.scheme, p.host, p.path, p.query)

\* ------------------------------------------------------------------ Database

\* The store file: whether it exists, and the rows of its two tables in rowid
\* order.  url rows are [id, host, path, status, data], header rows are
\* [id, url_id, name, value].
NoFile == [exists |-> FALSE, url |-> <<>>, header |-> <<>>]

EmptyStore == [exists |-> TRUE, url |-> <<>>, header |-> <<>>]

\* A create that unlinks the file whenever it exists.
Database_create_always_unlinks(d, recreate) == EmptyStore

\* A create that returns whenever the file exists.
Database_create_never_unlinks(d, recreate) ==
    IF d.exists THEN d ELSE EmptyStore

\* Database.create(recreate)
Database_create(d, recreate) ==
    IF d.exists /\ ~ recreate THEN d
    ELSE EmptyStore

\* Database._get_headers(connection, url_id)
RECURSIVE DictOfRows(_)
DictOfRows(rows) ==
    IF rows = <<>> THEN <<>>
    ELSE LET n == Len(rows)
             rest == DictOfRows(Take(rows, n - 1))
         IN  IF \E i \in 1..Len(rest) : rest[i][1] = rows[n].name
             THEN [i \in 1..Len(rest) |->
                      IF rest[i][1] = rows[n].name
                      THEN <<rows[n].name, rows[n].value>> ELSE rest[i]]
             ELSE Append(rest, <<rows[n].name, rows[n].value>>)

Database_get_headers(d, url_id) ==
    LET IsOf(r) == r.url_id = url_id
    IN  CaseInsensitiveDict(DictOfRows(SelectSeq(d.header, IsOf)))

\* A lookup whose WHERE clause binds host and path the wrong way round.
Database_get_swapped(d, uri) ==
    LET Matches(r) == r.host = uri.path /\ r.path = uri.host
        rows == SelectSeq(d.url, Matches)
    IN  IF rows = <<>> THEN None
        ELSE Some(Resource(rows[1].status,
                           Database_get_headers(d, rows[1].id),
                           rows[1].data))

\* Database.get(uri): Optional[Resource]; fetchone() takes the first matching
\* row of the table scan, the one of least rowid.
Database_get(d, uri) ==
    LET Matches(r) == r.host = uri.host /\ r.path = uri.path
        rows == SelectSeq(d.url, Matches)
    IN  IF rows = <<>> THEN None
        ELSE Some(Resource(rows[1].status,
                           Database_get_headers(d, rows[1].id),
                           rows[1].data))

\* An insert that reads lastrowid after the header rows went in, so that the
\* headers refer to a row id of the header table.
Database_insert_late_rowid(d, url, resource) ==
    LET url_id == Len(d.url) + 1
        h == resource.headers
    IN  [d EXCEPT
           !.url = Append(@, [id |-> url_id, host |-> url.uri.host,
                              path |-> url.uri.path,
                              status |-> resource.status,
                              data |-> resource.data]),
           !.header = @ \o [i \in 1..Len(h) |->
                              [id |-> Len(d.header) + i,
                               url_id |-> Len(d.header) + i,
                               name |-> h[i].key, value |-> h[i].value]]]

\* Database.insert(url, resource)
Database_insert(d, url, resource) ==
    LET url_id == Len(d.url) + 1
        h == resource.headers
    IN  [d EXCEPT
           !.url = Append(@, [id |-> url_id, host |-> url.uri.host,
                              path |-> url.uri.path,
                              status |-> resource.status,
                              data |-> resource.data]),
           !.header = @ \o [i \in 1..Len(h) |->
                              [id |-> Len(d.header) + i, url_id |-> url_id,
                               name |-> h[i].key, value |-> h[i].value]]]

\* ----------------------------------------------------------------- HTTPCache

\* HTTPCache.fetch_uncached(url): [exc, val]; requests.get raises when the
\* transport fails (answers = FALSE).
HTTPCache_fetch_uncached(url, answers) ==
    IF answers
    THEN [exc |-> "", val |-> Some(requests_get(Url_str(url)))]
    ELSE [exc |-> "ConnectionError", val |-> None]

\* A fetch that sends the GET before it looks at the store, and returns what
\* the transport answered.
HTTPCache_fetch_get_first(d, url, answers) ==
    LET hit == Database_get(d, url.uri)
        got == HTTPCache_fetch_uncached(url, answers)
    IN  IF got.exc # ""
        THEN [exc |-> got.exc, val |-> None, db |-> d, live |-> TRUE]
        ELSE [exc |-> "", val |-> got.val,
              db |-> IF hit # None THEN d
                     ELSE Database_insert(d, url, got.val[1]),
              live |-> TRUE]

\* A fetch that stores the resource it returns, hit or not.
HTTPCache_fetch_stores_hit(d, url, answers) ==
    LET hit == Database_get(d, url.uri)
        got == HTTPCache_fetch_uncached(url, answers)
    IN  IF hit # None
        THEN [exc |-> "", val |-> hit,
              db |-> Database_insert(d, url, hit[1]), live |-> FALSE]
        ELSE IF got.exc # ""
        THEN [exc |-> got.exc, val |-> None, db |-> d, live |-> TRUE]
        ELSE [exc |-> "", val |-> got.val,
              db |-> Database_insert(d, url, got.val[1]), live |-> TRUE]

\* A fetch that returns the response without storing it.
HTTPCache_fetch_no_insert(d, url, answers) ==
    LET hit == Database_get(d, url.uri)
        got == HTTPCache_fetch_uncached(url, answers)
    IN  IF hit # None
        THEN [exc |-> "", val |-> hit, db |-> d, live |-> FALSE]
        ELSE IF got.exc # ""
        THEN [exc |-> got.exc, val |-> None, db |-> d, live |-> TRUE]
        ELSE [exc |-> "", val |-> got.val, db |-> d, live |-> TRUE]

\* HTTPCache.fetch(url): [exc, val, db, live]: the exception or the Resource
\* returned, the store afterwards, and whether a GET was sent.
HTTPCache_fetch(d, url, answers) ==
    LET hit == Database_get(d, url.uri)
        got == HTTPCache_fetch_uncached(url, answers)
    IN  IF hit # None
        THEN [exc |-> "", val |-> hit, db |-> d, live |-> FALSE]
        ELSE IF got.exc # ""
        THEN [exc |-> got.exc, val |-> None, db |-> d, live |-> TRUE]
        ELSE [exc |-> "", val |-> got.val,
              db |-> Database_insert(d, url, got.val[1]), live |-> TRUE]

\* ------------------------------------------------- split_list, extract_links

\* str.strip() of the whitespace lexeme.
RECURSIVE strip(_)
strip(s) ==
    IF s # <<>> /\ s[1] = " " THEN strip(Tail(s))
    ELSE IF s # <<>> /\ s[Len(s)] = " " THEN strip(Take(s, Len(s) - 1))
    ELSE s

\* str.split(sep): the sequence of the pieces between the separators.
RECURSIVE split(_, _)
split(text, sep) ==
    LET i == FindFirst(text, {sep})
    IN  IF i > Len(text) THEN <<text>>
        ELSE <<Take(text, i - 1)>> \o split(Drop(text, i), sep)

\* split_list(text, sep)
split_list(text, sep) ==
    LET parts == split(text, sep)
    IN  {strip(parts[i]) : i \in 1..Len(parts)} \ {<<>>}

\* extract_links(base, resource): [exc, val]; resource.headers['Content-Type']
\* raises KeyError when the resource has no such header.
extract_links(base, resource) ==
    IF ~ CID_contains(resource.headers, <<"Content-Type">>)
    THEN [exc |-> "KeyError", val |-> {}]
    ELSE LET content_type ==
                 split_list(CID_getitem(resource.headers, <<"Content-Type">>), ";")
         IN  [exc |-> "",
              val |-> IF <<"text/html">> \in content_type
                      THEN {Url_relative(base, resource.data[i]) :
                                i \in 1..Len(resource.data)}
                      ELSE {}]

\* -------------------------------------------------------------- ScrapePolicy

\* A policy that checks the host only.
ScrapePolicy_should_scrape_host_only(policy_root, url) ==
    IF url.uri.host # policy_root.uri.host THEN FALSE
    ELSE TRUE

\* ScrapePolicy(root).should_scrape(url)
ScrapePolicy_should_scrape(policy_root, url) ==
    IF url.uri.host # policy_root.uri.host THEN FALSE
    ELSE IF url.scheme \notin {<<"http">>, <<"https">>} THEN FALSE
    ELSE TRUE

\* --------------------------------------------------------------------- state

\* The root arguments the scrape command is run with.
Roots ==
    { <<"example.com">>,
      <<"http", ":", "/", "/", "example.com", "/", "a", "/", "b">>,
      <<"http", ":", "/", "/", "example.com", "/", "f">>,
      <<"https", ":", "/", "/", "example.com", "/", "n">>,
      <<"/", "a">> }

VARIABLES
    db,              \* the store file (Database.path)
    pc,              \* where cmd_scrape is: "idle" (no scrape run yet), "while"
                     \* (at the loop test), "for" (in the for loop), "done"
                     \* (returned), "aborted" (left by an exception)
    err,             \* the exception that aborted the run, "" when none
    root,            \* cmd_scrape's root; the locals of cmd_scrape are those
                     \* of the last command run, and a command that is not a
                     \* scrape run, or fails before it has any, leaves none
    visited,         \* cmd_scrape's visited
    unvisited,       \* cmd_scrape's unvisited
    next_unvisited,  \* cmd_scrape's next_unvisited
    todo,            \* what is left of sorted(unvisited) in the for loop
    run,             \* the number of commands started so far
    log,             \* history: the calls of HTTPCache.fetch since the store
                     \* file was created, [run, url, live, exc, val]
    doneRoots        \* history: the roots whose scrape run returned normally
                     \* on this store file

vars == <<db, pc, err, root, visited, unvisited, next_unvisited, todo, run,
          log, doneRoots>>

\* No command is running: the next command may start.
AtPrompt == pc \in {"idle", "done", "aborted"}

NoUrl == Url(<<>>, Uri(<<>>, <<>>), None, None)

Init ==
    /\ db = NoFile
    /\ pc = "idle"
    /\ err = ""
    /\ root = NoUrl
    /\ visited = {}
    /\ unvisited = {}
    /\ next_unvisited = {}
    /\ todo = <<>>
    /\ run = 0
    /\ log = <<>>
    /\ doneRoots = {}

\* The Resource cmd_create stores with --testdata.
TestData == Resource(200, ContentType(<<"Content-Type">>, Plain), <<>>)

\* cmd_create(ns) with ns.recreate, ns.testdata.
cmd_create(recreate, testdata) ==
    /\ AtPrompt
    /\ run < MaxRuns
    /\ LET created == Database_create(db, recreate)
       IN  db' = IF testdata
                 THEN Database_insert(created,
                                      Url_parse(<<"example.com">>).val[1],
                                      TestData)
                 ELSE created
    /\ run' = run + 1
    /\ pc' = "idle"
    /\ err' = ""
    /\ log' = IF db.exists /\ recreate THEN <<>> ELSE log
    /\ doneRoots' = IF db.exists /\ recreate THEN {} ELSE doneRoots
    /\ root' = NoUrl
    /\ visited' = {}
    /\ unvisited' = {}
    /\ next_unvisited' = {}
    /\ todo' = <<>>

\* cmd_scrape(ns), lines 263-270: up to the first test of the while loop.
cmd_scrape(ns_root) ==
    /\ AtPrompt
    /\ run < MaxRuns
    /\ run' = run + 1
    /\ LET parsed == Url_parse(ns_root)
       IN  IF parsed.exc # ""
           THEN /\ pc' = "aborted"
                /\ err' = parsed.exc
                /\ db' = db
                /\ root' = NoUrl
                /\ visited' = {}
                /\ unvisited' = {}
                /\ next_unvisited' = {}
                /\ todo' = <<>>
           ELSE /\ pc' = "while"
                /\ err' = ""
                /\ db' = Database_create(db, FALSE)
                /\ root' = parsed.val[1]
                /\ visited' = {}
                /\ unvisited' = {parsed.val[1]}
                /\ next_unvisited' = {}
                /\ todo' = <<>>
    /\ UNCHANGED <<log, doneRoots>>

\* Lines 272-274: the test of the while loop, and sorted(unvisited).
WhileTest ==
    /\ pc = "while"
    /\ IF unvisited = {}
       THEN /\ pc' = "done"
            /\ doneRoots' = doneRoots \cup {root}
            /\ UNCHANGED <<err, next_unvisited, todo>>
       ELSE LET order == sorted(unvisited)
            IN  /\ doneRoots' = doneRoots
                /\ next_unvisited' = {}
                /\ IF order.exc # ""
                   THEN /\ pc' = "aborted"
                        /\ err' = order.exc
                        /\ todo' = <<>>
                   ELSE /\ pc' = "for"
                        /\ err' = ""
                        /\ todo' = order.val
    /\ UNCHANGED <<db, root, visited, unvisited, run, log>>

\* A loop that adds every extracted link.
Accepted_unfiltered(policy_root, links) == links

\* The links of a resource that the loop adds to next_unvisited (lines 276-278).
Accepted(policy_root, links) ==
    {link \in links : ScrapePolicy_should_scrape(policy_root, link)}

\* A loop body that catches the transport's exception and goes on to the next
\* URL.
ForBody_skips_failure(answers) ==
    /\ pc = "for"
    /\ todo # <<>>
    /\ LET url == Head(todo)
           fetched == HTTPCache_fetch(db, url, answers)
           links == extract_links(root, fetched.val[1])
           entry == [run |-> run, url |-> url, live |-> fetched.live,
                     exc |-> fetched.exc, val |-> fetched.val]
       IN  /\ log' = Append(log, entry)
           /\ db' = fetched.db
           /\ IF fetched.exc # ""
              THEN /\ pc' = "for"
                   /\ err' = ""
                   /\ next_unvisited' = next_unvisited
                   /\ visited' = visited \cup {url}
                   /\ todo' = Tail(todo)
              ELSE IF links.exc # ""
              THEN /\ pc' = "aborted"
                   /\ err' = links.exc
                   /\ UNCHANGED <<visited, next_unvisited, todo>>
              ELSE /\ pc' = "for"
                   /\ err' = ""
                   /\ next_unvisited' =
                          next_unvisited \cup Accepted(root, links.val)
                   /\ visited' = visited \cup {url}
                   /\ todo' = Tail(todo)
    /\ UNCHANGED <<root, unvisited, run, doneRoots>>

\* A loop body that resolves the links of a page against the page's URL.
ForBody_resolves_against_page(answers) ==
    /\ pc = "for"
    /\ todo # <<>>
    /\ LET url == Head(todo)
           fetched == HTTPCache_fetch(db, url, answers)
           links == extract_links(url, fetched.val[1])
           entry == [run |-> run, url |-> url, live |-> fetched.live,
                     exc |-> fetched.exc, val |-> fetched.val]
       IN  /\ log' = Append(log, entry)
           /\ db' = fetched.db
           /\ IF fetched.exc # ""
              THEN /\ pc' = "aborted"
                   /\ err' = fetched.exc
                   /\ UNCHANGED <<visited, next_unvisited, todo>>
              ELSE IF links.exc # ""
              THEN /\ pc' = "aborted"
                   /\ err' = links.exc
                   /\ UNCHANGED <<visited, next_unvisited, todo>>
              ELSE /\ pc' = "for"
                   /\ err' = ""
                   /\ next_unvisited' =
                          next_unvisited \cup Accepted(root, links.val)
                   /\ visited' = visited \cup {url}
                   /\ todo' = Tail(todo)
    /\ UNCHANGED <<root, unvisited, run, doneRoots>>

\* Lines 275-279: the body of the for loop for the next URL; the transport
\* answers or fails.
ForBody(answers) ==
    /\ pc = "for"
    /\ todo # <<>>
    /\ LET url == Head(todo)
           fetched == HTTPCache_fetch(db, url, answers)
           links == extract_links(root, fetched.val[1])
           entry == [run |-> run, url |-> url, live |-> fetched.live,
                     exc |-> fetched.exc, val |-> fetched.val]
       IN  /\ log' = Append(log, entry)
           /\ db' = fetched.db
           /\ IF fetched.exc # ""
              THEN /\ pc' = "aborted"
                   /\ err' = fetched.exc
                   /\ UNCHANGED <<visited, next_unvisited, todo>>
              ELSE IF links.exc # ""
              THEN /\ pc' = "aborted"
                   /\ err' = links.exc
                   /\ UNCHANGED <<visited, next_unvisited, todo>>
              ELSE /\ pc' = "for"
                   /\ err' = ""
                   /\ next_unvisited' =
                          next_unvisited \cup Accepted(root, links.val)
                   /\ visited' = visited \cup {url}
                   /\ todo' = Tail(todo)
    /\ UNCHANGED <<root, unvisited, run, doneRoots>>

\* A loop that forgets to take visited out of the next frontier.
ForEnd_keep_visited ==
    /\ pc = "for"
    /\ todo = <<>>
    /\ unvisited' = next_unvisited
    /\ pc' = "while"
    /\ UNCHANGED <<db, err, root, visited, next_unvisited, todo, run, log,
                   doneRoots>>

\* A loop that takes the round's frontier, not visited, out of the next one.
ForEnd_minus_unvisited ==
    /\ pc = "for"
    /\ todo = <<>>
    /\ unvisited' = next_unvisited \ unvisited
    /\ pc' = "while"
    /\ UNCHANGED <<db, err, root, visited, next_unvisited, todo, run, log,
                   doneRoots>>

\* Line 280: the for loop is exhausted.
ForEnd ==
    /\ pc = "for"
    /\ todo = <<>>
    /\ unvisited' = next_unvisited \ visited
    /\ pc' = "while"
    /\ UNCHANGED <<db, err, root, visited, next_unvisited, todo, run, log,
                   doneRoots>>

Next ==
    \/ \E recreate, testdata \in BOOLEAN : cmd_create(recreate, testdata)
    \/ \E ns_root \in Roots : cmd_scrape(ns_root)
    \/ WhileTest
    \/ \E answers \in BOOLEAN : ForBody(answers)
    \/ ForEnd

Spec == Init /\ [][Next]_vars

\* -------------------------------------------------------------------- claims

\* The indices of the log.
Calls == 1..Len(log)

\* C1: when a fetch of u1 found no record for its URI and sent the GET, a
\* later fetch of a URL u2 with the same URI and another query string sends no
\* GET and returns the Resource the first call stored; so exactly one GET was
\* sent for the two calls.
C1_OneGetPerUri ==
    \A i, j \in Calls :
        ( /\ i < j
          /\ log[i].live /\ log[i].exc = ""
          /\ log[j].url.uri = log[i].url.uri
          /\ log[j].url.query # log[i].url.query )
        => /\ ~ log[j].live
           /\ log[j].exc = ""
           /\ Resource_eq(log[j].val[1], log[i].val[1])
           /\ Cardinality({k \in i..j : log[k].live
                                /\ log[k].url.uri = log[i].url.uri}) = 1

\* Two fetches of one URI under two query strings, the first of them live.
C1_Witness ==
    \E i, j \in Calls :
        /\ i < j
        /\ log[i].live /\ log[i].exc = ""
        /\ log[j].url.uri = log[i].url.uri
        /\ log[i].url.query = Some(<<"q=1">>)
        /\ log[j].url.query = Some(<<"q=2">>)
        /\ ~ log[j].live

\* C2: within one run cache.fetch is called at most once for each URL, the
\* URLs still to fetch in a round are not in visited, and the frontier a round
\* starts with holds no visited URL.
C2_VisitedNeverFetchedAgain ==
    /\ \A i, j \in Calls :
          (i < j /\ log[i].run = log[j].run) => log[i].url # log[j].url
    /\ pc = "for" => \A k \in 1..Len(todo) : todo[k] \notin visited
    /\ pc = "while" => unvisited \cap visited = {}

\* A later round starts although a link back to a visited URL was collected.
C2_Witness ==
    /\ pc = "while"
    /\ unvisited # {}
    /\ next_unvisited \cap visited # {}
    /\ Cardinality(visited) >= 2

\* The links the crawl follows from the page the site serves for u: the
\* hrefs of an HTML page, resolved against root, that pass the scope policy.
LinksOf(r, u) ==
    Accepted(r, extract_links(r, requests_get(Url_str(u))).val)

\* The URLs reachable from the root through such links.
RECURSIVE Closure(_, _)
Closure(r, S) ==
    LET N == S \cup UNION {LinksOf(r, u) : u \in S}
    IN  IF N = S THEN S ELSE Closure(r, N)

Reachable(r) == Closure(r, {r})

\* The store held no record when the current run began: every record was
\* inserted by a fetch of this run.
FreshRun ==
    Len(db.url) = Cardinality({k \in Calls : log[k].run = run /\ log[k].live
                                                /\ log[k].exc = ""})

\* C3: a scrape run whose transport always answers ends only by its frontier
\* becoming empty, never by an exception, and when it started on an empty
\* store and no reachable URL has a query string, visited is then exactly the
\* set of URLs reachable from the root through links that pass the policy.
C3_TerminatesWithReachable ==
    /\ pc = "aborted" => err \in {"ConnectionError", "AssertionError"}
    /\ ( /\ pc = "done"
         /\ FreshRun
         /\ \A u \in Reachable(root) : u.query = None )
       => visited = Reachable(root)

\* The records of the store, at most one for any (host, path).
UniqueUri(d) ==
    \A i, j \in 1..Len(d.url) :
        (d.url[i].host = d.url[j].host /\ d.url[i].path = d.url[j].path)
            => i = j

\* C4: a step of the crawl loop taken on a store with at most one record per
\* (host, path) leaves at most one record per (host, path), and it inserts a
\* record only for the URI of the URL it fetches and only when Database.get
\* finds none for it.
C4_FetchKeepsUriUnique ==
    [][ (pc = "for" /\ UniqueUri(db))
        => /\ UniqueUri(db')
           /\ db' # db
              => /\ Database_get(db, Head(todo).uri) = None
                 /\ Len(db'.url) = Len(db.url) + 1
                 /\ db'.url[Len(db'.url)].host = Head(todo).uri.host
                 /\ db'.url[Len(db'.url)].path = Head(todo).uri.path ]_vars

\* The loop has inserted records and has met a URI it already holds.
C4_Witness ==
    /\ pc = "for"
    /\ UniqueUri(db)
    /\ Len(db.url) >= 3
    /\ \E k \in Calls : log[k].run = run /\ ~ log[k].live

\* The URLs and Resources the round trip through the store is tried on.
InsertUrls ==
    { Url_parse(<<"example.com">>).val[1],
      Url_parse(<<"https", ":", "/", "/", "example.com", "/", "a", "?", "q=1">>).val[1],
      Url_parse(<<"other.com", "/", "b", "#", "top">>).val[1] }

InsertResources ==
    { TestData,
      requests_get(<<"http", ":", "/", "/", "example.com", "/">>),
      requests_get(<<"http", ":", "/", "/", "example.com", "/", "a">>),
      Resource(204, <<>>, <<>>),
      Resource(200,
               CaseInsensitiveDict(<< <<(<<"content-type">>), Html>>,
                                      <<(<<"x">>), (<<"a">>)>> >>),
               << Href(<<"/", "b">>) >>) }

\* insert(u, r) followed by get(u.uri) returns a Resource equal to r.
RoundTrip(d, u, r) ==
    LET got == Database_get(Database_insert(d, u, r), u.uri)
    IN  got # None /\ Resource_eq(got[1], r)

\* C5, as claimed: whatever the store holds, insert(u, r) followed by
\* get(u.uri) returns a Resource equal to r in status, body and header set.
C5_RoundTripAnyStore ==
    db.exists => \A u \in InsertUrls, r \in InsertResources : RoundTrip(db, u, r)

\* C5, amended: on a store that holds no record for u.uri, insert(u, r)
\* followed by get(u.uri) returns a Resource equal to r in status, body and
\* header set; and what the crawl stored by a live fetch is what get returns
\* for that URI from then on.
C5_RoundTripNoPriorRecord ==
    /\ db.exists =>
          \A u \in InsertUrls, r \in InsertResources :
              Database_get(db, u.uri) = None => RoundTrip(db, u, r)
    /\ \A k \in Calls :
          (log[k].live /\ log[k].exc = "")
              => /\ Database_get(db, log[k].url.uri) # None
                 /\ Resource_eq(Database_get(db, log[k].url.uri)[1],
                                log[k].val[1])

\* A store with records, some of the URIs tried on it free and some taken,
\* after a live fetch stored a Resource with headers.
C5_Witness ==
    /\ Len(db.url) >= 2
    /\ db.header # <<>>
    /\ \E u \in InsertUrls : Database_get(db, u.uri) = None
    /\ \E u \in InsertUrls : Database_get(db, u.uri) # None
    /\ \E k \in Calls : log[k].live /\ log[k].exc = "" /\ log[k].val[1].headers # <<>>

\* The calls of the log that sent a GET.
IsLive(e) == e.live

Lives(l) == SelectSeq(l, IsLive)

\* The URLs fetched in run n.
RunUrls(n) == {log[k].url : k \in {i \in Calls : log[i].run = n}}

\* C6: once a scrape run with some root has returned normally, every step of
\* a later scrape run with the same root on the same store file (not
\* recreated since) sends no GET and leaves the store unchanged, from the
\* Database.create() it starts with to its end, and the run is not aborted.
C6_SecondRunFetchesNothing ==
    [][ /\ (AtPrompt /\ pc' = "while" /\ root' \in doneRoots)
           => db' = db
        /\ (pc \in {"while", "for"} /\ root \in doneRoots)
           => /\ db' = db
              /\ Lives(log') = Lives(log)
              /\ pc' # "aborted" ]_vars

\* A run has returned after fetching, without a GET, the three or more URLs
\* that the run before it fetched with GETs.
C6_Witness ==
    /\ pc = "done"
    /\ run >= 2
    /\ root \in doneRoots
    /\ Cardinality(visited) >= 3
    /\ RunUrls(run) = visited
    /\ RunUrls(run - 1) = visited
    /\ \A k \in Calls : log[k].run = run => ~ log[k].live
    /\ \A k \in Calls : log[k].run = run - 1 => log[k].exc = ""
    /\ \E k \in Calls : log[k].run = run - 1 /\ log[k].live

\* C7: Database.create(recreate=False) leaves an existing store as it is and
\* makes a missing one empty, create(recreate=True) leaves an empty store
\* either way, and a second create(recreate=False) changes nothing; the
\* create() that cmd_scrape starts with keeps every record and header of an
\* existing store and makes a missing one empty.
C7_CreateIdempotent ==
    /\ [](/\ db.exists => Database_create(db, FALSE) = db
          /\ ~ db.exists => Database_create(db, FALSE) = EmptyStore
          /\ Database_create(db, TRUE) = EmptyStore
          /\ \A recreate \in BOOLEAN :
                Database_create(Database_create(db, recreate), FALSE)
                    = Database_create(db, recreate))
    /\ [][ (AtPrompt /\ pc' = "while")
           => db' = IF db.exists THEN db ELSE EmptyStore ]_vars

\* A scrape run has just called create() on a store that holds records and
\* headers.
C7_Witness ==
    /\ pc = "while"
    /\ visited = {}
    /\ Len(db.url) >= 2
    /\ db.header # <<>>

\* The last call of a log.
Last(l) == l[Len(l)]

\* C8: when the GET of an uncached URL fails, that step leaves the store and
\* visited unchanged and aborts the run with the transport's exception; and
\* an aborted run fetches nothing more.
C8_TransportFailureAborts ==
    [][ /\ (Len(log') > Len(log) /\ Last(log').exc # "")
           => /\ Last(log').live
              /\ Database_get(db, Last(log').url.uri) = None
              /\ db' = db
              /\ visited' = visited
              /\ Last(log').url \notin visited'
              /\ todo' = todo
              /\ pc' = "aborted"
              /\ err' = Last(log').exc
        /\ pc = "aborted" => (log' = log \/ log' = <<>>) ]_vars

\* A run was aborted by the transport in the middle of a frontier of several
\* URLs, after it had stored records.
C8_Witness ==
    /\ pc = "aborted"
    /\ err = "ConnectionError"
    /\ Len(todo) >= 2
    /\ visited # {}
    /\ db.url # <<>>
    /\ Head(todo) \notin visited
    /\ Database_get(db, Head(todo).uri) = None

\* The Resources Database.get returns for the records of the store.
StoredResources ==
    {Database_get(db, Uri(db.url[i].host, db.url[i].path))[1] :
        i \in 1..Len(db.url)}

\* The token set of the resource's Content-Type header contains text/html.
HasHtmlType(resource) ==
    /\ CID_contains(resource.headers, <<"Content-Type">>)
    /\ <<"text/html">> \in
          split_list(CID_getitem(resource.headers, <<"Content-Type">>), ";")

\* C9: for every resource read back from the store, extract_links raises
\* nothing and yields the empty set unless the Content-Type token set has
\* text/html, also when the resource has no Content-Type header; so no run is
\* aborted by a KeyError.
C9_ExtractLinksTolerant ==
    /\ \A resource \in StoredResources :
          /\ extract_links(root, resource).exc = ""
          /\ ~ HasHtmlType(resource) => extract_links(root, resource).val = {}
    /\ pc = "aborted" => err # "KeyError"

\* The URLs the policy is asked about: the links of the stored resources,
\* resolved against the root, and the URLs of the spec's example.
ExampleRoot == Url_parse(<<"http", ":", "/", "/", "example.com", "/">>).val[1]

ExampleUrls ==
    { Url_parse(<<"http", ":", "/", "/", "example.com", "/", "a">>).val[1],
      Url_parse(<<"http", ":", "/", "/", "other.com", "/">>).val[1],
      Url_parse(<<"ftp", ":", "/", "/", "example.com", "/", "x">>).val[1] }

CandidateLinks ==
    UNION {extract_links(root, resource).val : resource \in StoredResources}

InScope(policy_root, url) ==
    /\ url.uri.host = policy_root.uri.host
    /\ url.scheme \in {<<"http">>, <<"https">>}

\* C10: should_scrape(url) is true exactly when url has the root's host and
\* the scheme http or https, whatever its path, query and fragment: for the
\* links the crawl extracts and its root, for the links it has accepted, and
\* for the example (root http://example.com/ accepts http://example.com/a
\* and rejects http://other.com/ and ftp://example.com/x).
C10_ShouldScrapeIff ==
    /\ \A url \in CandidateLinks \cup ExampleUrls :
          /\ ScrapePolicy_should_scrape(root, url) <=> InScope(root, url)
          /\ ScrapePolicy_should_scrape(ExampleRoot, url)
                <=> InScope(ExampleRoot, url)
    /\ \A url \in next_unvisited : InScope(root, url)
    /\ {url \in ExampleUrls : ScrapePolicy_should_scrape(ExampleRoot, url)}
          = {Url_parse(<<"http", ":", "/", "/", "example.com", "/", "a">>).val[1]}

\* The crawl has accepted links with a query string and met links of another
\* host and of another scheme on the root's host.
C10_Witness ==
    /\ pc = "for"
    /\ root = ExampleRoot
    /\ \E url \in next_unvisited : url.query # None
    /\ \E url \in CandidateLinks :
          url.uri.host # root.uri.host /\ url.scheme = <<"http">>
    /\ \E url \in CandidateLinks :
          url.uri.host = root.uri.host /\ url.scheme = <<"ftp">>
    /\ \E url \in CandidateLinks : url.fragment # None \/ url.query # None

\* ---------------------------------------------------------------- C11 .. C20

\* The reference rel split into components the way the examples of relative
\* resolution read it: a reference with neither a scheme nor a leading "/" is
\* a path, followed by its query and its fragment.
ReferenceOf(rel) ==
    IF rel = None \/ rel[1] = <<>> \/ SCHEME_RE_search(rel[1])
    THEN parse_url(rel)
    ELSE LET s == rel[1]
             p == FindFirst(s, {"?", "#"})
             f == FindFirst(s, {"#"})
         IN  [scheme |-> None, host |-> None,
              path |-> Some(Take(s, p - 1)),
              query |-> IF p <= Len(s) /\ s[p] = "?"
                        THEN Some(SubSeq(s, p + 1, f - 1)) ELSE None,
              fragment |-> IF f <= Len(s) THEN Some(Drop(s, f)) ELSE None]

\* The URL the resolution rule gives for the reference rel against base.
Resolved(base, rel) ==
    LET ref == ReferenceOf(rel)
        path == IF ~ Truthy(ref.path) THEN base.uri.path
                ELSE IF ref.path[1][1] = "/" THEN ref.path[1]
                ELSE join(dirname(base.uri.path), ref.path[1])
    IN  Url(OrElse(ref.scheme, base.scheme),
            Uri(OrElse(ref.host, base.uri.host), path),
            ref.query, ref.fragment)

ExampleBase ==
    Url_parse(<<"http", ":", "/", "/", "example.com", "/", "a", "/", "b">>).val[1]

\* The href values of the documents in the store.
StoredHrefs ==
    UNION {{resource.data[i] : i \in 1..Len(resource.data)} :
              resource \in StoredResources}

\* C11: Url.relative(base, rel), for the root a scrape run resolves against
\* and every href of a stored document, has the base's path when rel has no
\* path, rel's path when it starts with "/", and otherwise rel's path joined
\* onto the directory of the base's path; scheme and host are rel's when
\* present and the base's otherwise; query and fragment are rel's.  With the
\* base http://example.com/a/b, "c" gives http://example.com/a/c, "/c" gives
\* http://example.com/c, "c?x=1" gives http://example.com/a/c?x=1 and "#top"
\* gives http://example.com/a/b#top.
C11_RelativeResolves ==
    root # NoUrl =>
        /\ \A rel \in StoredHrefs : Url_relative(root, rel) = Resolved(root, rel)
        /\ (root = ExampleBase /\ Database_get(db, root.uri) # None) =>
              /\ Url_str(Url_relative(root, Href(<<"c">>)))
                    = <<"http", ":", "/", "/", "example.com", "/", "a", "/", "c">>
              /\ Url_str(Url_relative(root, Href(<<"/", "c">>)))
                    = <<"http", ":", "/", "/", "example.com", "/", "c">>
              /\ Url_str(Url_relative(root, Href(<<"c", "?", "x=1">>)))
                    = <<"http", ":", "/", "/", "example.com", "/", "a", "/", "c",
                        "?", "x=1">>
              /\ Url_str(Url_relative(root, Href(<<"#", "top">>)))
                    = <<"http", ":", "/", "/", "example.com", "/", "a", "/", "b",
                        "#", "top">>

\* The links of the resource the last loop step of the run fetched.
LastLinks ==
    IF log # <<>> /\ Last(log).run = run /\ Last(log).exc = ""
    THEN extract_links(root, Last(log).val[1]).val
    ELSE {}

\* The urllib3 URLs that Url.parse hands to normalize for the root arguments.
RootInputs == {parse_url(Some(s)) : s \in Roots}

\* The Urls normalize has to leave as they are: the root, every URL of the
\* loop and every link the last loop step extracted.
LoopUrls ==
    (({root} \ {NoUrl}) \cup visited \cup unvisited \cup next_unvisited
        \cup LastLinks)

\* normalize applied to the URL normalize(u) stands for gives normalize(u).
Idempotent(u) ==
    LET n == Url_normalize(u)
        again == Url_normalize(Url_url(n.val[1]))
    IN  /\ n.exc = "" /\ again.exc = ""
        /\ again.val[1].scheme = n.val[1].scheme
        /\ again.val[1].uri.host = n.val[1].uri.host
        /\ again.val[1].uri.path = n.val[1].uri.path
        /\ again.val[1].query = n.val[1].query
        /\ again.val[1].fragment = n.val[1].fragment

IdempotentOnRootInputs == \A u \in RootInputs : u.host # None => Idempotent(u)

\* C12: normalize is idempotent: for every URL input u with a host (the
\* parsed root arguments, and the urllib3 form of every URL of the loop),
\* normalize applied to the URL normalize(u) stands for gives a Url equal to
\* normalize(u) in scheme, host, path, query and fragment.
C12_NormalizeIdempotent ==
    /\ IdempotentOnRootInputs
    /\ \A x \in LoopUrls : Url_url(x).host # None => Idempotent(Url_url(x))

\* A run whose root argument had neither scheme nor path, so that normalize
\* supplied both, has extracted links.
C12_Witness ==
    /\ parse_url(Some(<<"example.com">>)).scheme = None
    /\ parse_url(Some(<<"example.com">>)).path = None
    /\ root = Url_parse(<<"example.com">>).val[1]
    /\ root \in visited
    /\ \E x \in LastLinks : x.fragment # None

\* C13: the URLs of a round are processed in the lexicographic order of
\* (scheme, host, path, query, fragment), and that order is defined for every
\* two URLs a frontier holds, also when they differ only in that one has a
\* query or fragment and the other has none: sorted(unvisited) never raises,
\* and every URL of the frontier is fetched in its round.
C13_FrontierOrderTotal ==
    /\ \A a, b \in unvisited : Url_comparable(a, b)
    /\ ~ (pc = "aborted" /\ err = "TypeError")
    /\ pc = "for" =>
          /\ \A u \in unvisited :
                u \in visited \/ \E i \in 1..Len(todo) : todo[i] = u
          /\ \A i, j \in 1..Len(todo) : i < j => Url_lt(todo[i], todo[j])

\* The fetches of the round in progress: those of this run for a URL of the
\* round's frontier.
RoundCalls ==
    {k \in Calls : log[k].run = run /\ log[k].url \in unvisited
                     /\ log[k].exc = ""}

\* The links in scope collected from the URLs fetched in the round.
RoundLinks ==
    UNION {{link \in extract_links(root, log[k].val[1]).val :
                InScope(root, link)} : k \in RoundCalls}

\* C14: when a round ends, the next frontier is the union of the links in
\* scope collected from every URL fetched in the round, minus visited, and
\* every URL of the round was fetched; at the start of every round the
\* frontier and visited are disjoint; and visited only grows during a run.
C14_NextFrontier ==
    /\ [](pc = "while" => unvisited \cap visited = {})
    /\ [][ /\ (pc = "for" /\ pc' = "while")
              => /\ unvisited = {log[k].url : k \in RoundCalls}
                 /\ unvisited' = RoundLinks \ visited
           /\ (run' = run) => visited \subseteq visited' ]_vars

\* A round after the first has ended: it collected links, some of them
\* already visited, and the frontier it leaves is what is left of them.
C14_Witness ==
    /\ pc = "while"
    /\ Cardinality(visited) >= 3
    /\ next_unvisited \cap visited # {}
    /\ unvisited # {}
    /\ unvisited = next_unvisited \ visited
    /\ \E k \in Calls : log[k].run = run /\ log[k].url \in visited
                          /\ next_unvisited \cap
                                extract_links(root, log[k].val[1]).val # {}

\* The URLs of todo.
Range(seq) == {seq[i] : i \in 1..Len(seq)}

\* C15: every URL that enters a frontier after the initial one has the root's
\* host and the scheme http or https, and so has every URL other than the
\* root that the run fetches: no GET goes to another host for a URL other
\* than the root.
C15_FrontierInScope ==
    /\ \A u \in (next_unvisited \cup unvisited \cup visited \cup Range(todo))
                    \ {root} :
          InScope(root, u)
    /\ \A k \in Calls :
          (log[k].run = run /\ log[k].url # root) =>
              /\ InScope(root, log[k].url)
              /\ log[k].live => log[k].url.uri.host = root.uri.host

\* A URL other than the root was fetched with a GET in a run that extracted
\* links to another host and of another scheme.
C15_Witness ==
    /\ \E k \in Calls : log[k].run = run /\ log[k].url # root /\ log[k].live
    /\ \E link \in CandidateLinks : link.uri.host # root.uri.host
    /\ \E link \in CandidateLinks : link.scheme = <<"ftp">>
    /\ pc = "done"

\* The hrefs of an HTML resource resolved against base, those in scope of the
\* root kept.
ScopedLinks(base, resource) ==
    IF HasHtmlType(resource)
    THEN {link \in {Url_relative(base, resource.data[i]) :
                        i \in 1..Len(resource.data)} : InScope(root, link)}
    ELSE {}

\* C16: the links of a fetched resource are resolved against the root of the
\* run, never against the URL the resource was fetched for: the links a loop
\* step adds to the next frontier are the hrefs of the resource resolved
\* against root that are in scope, so the same resource adds the same links
\* whichever frontier URL it was fetched for.
C16_LinksResolvedAgainstRoot ==
    [][ (Len(log') > Len(log) /\ pc' = "for")
        => next_unvisited' =
              next_unvisited \cup ScopedLinks(root, Last(log').val[1]) ]_vars

\* A loop step has just added the links of a page other than the root whose
\* hrefs resolve differently against the page's own URL.
C16_Witness ==
    /\ pc = "for"
    /\ log # <<>>
    /\ Last(log).run = run
    /\ Last(log).url # root
    /\ Last(log).url.uri # root.uri
    /\ Last(log).url \in visited
    /\ ScopedLinks(Last(log).url, Last(log).val[1])
          # ScopedLinks(root, Last(log).val[1])
    /\ ScopedLinks(root, Last(log).val[1]) \subseteq next_unvisited

IsPrefix(a, b) == Len(a) <= Len(b) /\ SubSeq(b, 1, Len(a)) = a

\* C17: a scrape run only appends to the store: every record and header row
\* the store holds before a step of the run, the create() it starts with
\* included, is in the store unchanged after the step; and a fetch of a URL
\* whose URI has a record sends no GET and leaves the store unchanged.
C17_CrawlOnlyAppends ==
    [][ /\ ((pc \in {"while", "for"} \/ (AtPrompt /\ pc' = "while"))
                /\ db.exists)
           => /\ db'.exists
              /\ IsPrefix(db.url, db'.url)
              /\ IsPrefix(db.header, db'.header)
        /\ (Len(log') > Len(log)
                /\ Database_get(db, Last(log').url.uri) # None)
           => /\ ~ Last(log').live
              /\ Last(log').exc = ""
              /\ db' = db ]_vars

\* A run that has added records to a store that held some has just had a hit.
C17_Witness ==
    /\ pc = "for"
    /\ log # <<>>
    /\ ~ Last(log).live
    /\ Last(log).run = run
    /\ \E k \in Calls : log[k].run = run /\ log[k].live /\ log[k].exc = ""
    /\ \E k \in Calls : log[k].run < run
    /\ Len(db.url) >= 3

\* C18: in every state that commands reach (create with or without
\* --recreate and --testdata, scrape of any root) the store holds at most one
\* record for each (host, path); create --testdata on a store that exists,
\* without --recreate, adds no second record for example.com "/".
C18_StoreUniqueAlways ==
    /\ UniqueUri(db)
    /\ Cardinality({i \in 1..Len(db.url) :
                        /\ db.url[i].host = <<"example.com">>
                        /\ db.url[i].path = <<"/">>}) <= 1

\* C19: at every point of a scrape run, every URL in visited has a record in
\* the store for its URI.
C19_VisitedAreStored ==
    \A u \in visited : db.exists /\ Database_get(db, u.uri) # None

\* A run has visited several URLs, two of them of one URI, some stored by the
\* run itself.
C19_Witness ==
    /\ pc \in {"for", "done"}
    /\ Cardinality(visited) >= 4
    /\ \E u, v \in visited : u # v /\ u.uri = v.uri
    /\ \E k \in Calls : log[k].run = run /\ log[k].live /\ log[k].exc = ""
                          /\ log[k].url \in visited

\* The URLs Url.parse gives for the root arguments it accepts.  The links of
\* every resource fetched are those of the last loop step at some point.
ParsedRoots ==
    {Url_parse(s).val[1] : s \in {t \in Roots : Url_parse(t).exc = ""}}

\* C20: every URL Url.parse produces, and every URL Url.relative produces
\* from the root of a run, so every URL of a frontier or of visited, has a
\* non-empty scheme and a non-empty path, although Url.relative does not pass
\* its result through normalize.
C20_UrlInvariant ==
    /\ \A u \in ParsedRoots \cup visited \cup unvisited \cup next_unvisited
                    \cup Range(todo) :
          u.scheme # <<>> /\ u.uri.path # <<>>
    /\ root # NoUrl =>
          /\ root.scheme # <<>> /\ root.uri.path # <<>>
          /\ \A link \in LastLinks :
                link.scheme # <<>> /\ link.uri.path # <<>>

\* A frontier holds a URL resolved from an href that has neither scheme nor
\* path, in a run whose root argument had neither.
C20_Witness ==
    /\ pc = "while"
    /\ root = Url_parse(<<"example.com">>).val[1]
    /\ \E rel \in StoredHrefs :
          /\ rel # None
          /\ parse_url(rel).scheme = None
          /\ ~ Truthy(parse_url(rel).path)
          /\ Url_relative(root, rel) \in unvisited
    /\ None \in StoredHrefs

====
